---------------------------- MODULE Spec2Model ----------------------------
(***************************************************************************)
(* Bootstrap and lifecycle of the chat bot in src/bot/bot.py:              *)
(*   Env (secret file check), Storage.get (scoped temporary file),         *)
(*   Config (remote document + credential overrides), Bot.create /         *)
(*   Bot.__init__ / Bot.run, the channel guards and the heartbeat loop.    *)
(* Mappings (dict / UserDict) are TLA+ functions with string domains.      *)
(***************************************************************************)
EXTENDS Naturals, Sequences, FiniteSets, TLC

(* ------------------------------ bounds --------------------------------- *)
\* at most this many keys of the secret file deviate from a complete file
MaxDefects == 1
\* the heartbeat counter is observed up to this many dispatches
MaxBeats == 2

(* --------------------------- program constants ------------------------- *)
\* Env.REQUIRED_KEYS
REQUIRED_KEYS == {"S3_REGION", "S3_BUCKET", "AWS_KEY", "AWS_SECRET"}

\* the keys Config.load_env indexes the Env with
OVERRIDE_KEYS == {"DISCORD_CLIENT_ID", "DISCORD_TOKEN",
                  "REDDIT_BOT_CLIENT_ID", "REDDIT_BOT_SECRET"}

\* the order of the add_cog calls in Bot.__init__
COGS == <<"PresenceCog", "WelcomeCog", "RolerCog", "AfterdarkCog", "RealtalkCog",
          "ActivityCog", "LurkersCog", "AnimeCog", "AnnoyingCog", "NoveltyCog">>

\* the dict with no keys
EmptyMap == [k \in {} |-> ""]

\* Python's None, as dotenv_values gives for a line "KEY" without "="
PyNone == "<None>"

(* ------------------------------ inputs --------------------------------- *)
\* every key a secret file of the model may hold
FileKeys == REQUIRED_KEYS \cup OVERRIDE_KEYS

\* the value a well-formed line KEY=value of the secret file carries
FileValue ==
    [k \in FileKeys |->
        CASE k = "S3_REGION"            -> "us-east-1"
          [] k = "S3_BUCKET"            -> "ehfbot"
          [] k = "AWS_KEY"              -> "AKIA"
          [] k = "AWS_SECRET"           -> "aws-secret"
          [] k = "DISCORD_CLIENT_ID"    -> "abc"
          [] k = "DISCORD_TOKEN"        -> "xyz"
          [] k = "REDDIT_BOT_CLIENT_ID" -> "r1"
          [] k = "REDDIT_BOT_SECRET"    -> "s1"]

\* how one line of the file may deviate: the key is not there, "KEY=" or "KEY"
DefectKinds == {"missing", "empty", "novalue"}

\* what dotenv_values(".env") returns for a complete file with the defects d
DotenvWith(d) ==
    [k \in {x \in FileKeys : x \notin DOMAIN d \/ d[x] # "missing"} |->
        IF k \notin DOMAIN d THEN FileValue[k]
        ELSE IF d[k] = "empty" THEN "" ELSE PyNone]

\* the secret files of the model
EnvFiles ==
    UNION { { DotenvWith(d) : d \in [D -> DefectKinds] } :
            D \in { S \in SUBSET FileKeys : Cardinality(S) <= MaxDefects } }

\* channel names a command may be invoked in
ChannelNames == {"meta", "bots", "general"}

\* the subtrees a remote document may hold under each top-level key
RemoteSubtrees ==
    [commands |-> { [prefix |-> "!"] },
     channels |-> { [meta |-> "meta", bot |-> "bots"] },
     discord  |-> { [unused |-> "true", token |-> "stale"] },
     reddit   |-> { [client_id |-> "stale", secret |-> "stale"] }]

\* the parsed remote documents (top-level mappings) of the model
RemoteDocs ==
    UNION { [K -> UNION { RemoteSubtrees[k] : k \in K }] :
            K \in SUBSET (DOMAIN RemoteSubtrees) }

\* documents whose keys hold the subtree kind that belongs to the key
WellKeyedDocs == { d \in RemoteDocs : \A k \in DOMAIN d : d[k] \in RemoteSubtrees[k] }

\* what the object config/app.yml of the bucket may be
RemoteObjects ==
    { [kind |-> "mapping", doc |-> d] : d \in WellKeyedDocs }
      \cup { [kind |-> "malformed", doc |-> EmptyMap],
             [kind |-> "empty", doc |-> EmptyMap] }

(* ------------------------------- state --------------------------------- *)
VARIABLES
    dotenv,        \* what dotenv_values(".env") returns
    pc,            \* position of the main flow (Bot.create, Bot.run)
    failure,       \* the exception that ended the process, or "none"
    env,           \* Env.data
    storage,       \* the Storage handle's session / bucket arguments
    temp,          \* the NamedTemporaryFile of Storage.get
    remote,        \* the object downloaded from config/app.yml
    dataKind,      \* type of Config.data: "unset", "dict" or "NoneType"
    data,          \* Config.data
    command_prefix,\* the prefix Bot.__init__ hands to commands.Bot
    cogs,          \* the cogs registered, in order
    log,           \* the startup steps completed or started, in order
    ready,         \* the gateway's ready event (wait_until_ready)
    closed,        \* is_closed()
    hbPc,          \* position of the heartbeat task
    beats,         \* number of 'heartbeat' events dispatched
    pending,       \* the guard call suspended in `await ctx.send(...)`, if any
    lastCall       \* the outcome of the latest guard call, once it is over

vars == <<dotenv, pc, failure, env, storage, temp, remote, dataKind, data,
          command_prefix, cogs, log, ready, closed, hbPc, beats, pending,
          lastCall>>

startupVars == <<env, storage, temp, remote, dataKind, data, command_prefix, cogs>>
gatewayVars == <<ready, closed, hbPc, beats, pending, lastCall>>

NoCall == [fn |-> "none", channel |-> "", messages |-> <<>>,
           raised |-> FALSE, ret |-> FALSE]

Init ==
    /\ dotenv \in EnvFiles
    /\ pc = "start"
    /\ failure = "none"
    /\ env = EmptyMap
    /\ storage = EmptyMap
    /\ temp = "none"
    /\ remote = [kind |-> "none", doc |-> EmptyMap]
    /\ dataKind = "unset"
    /\ data = EmptyMap
    /\ command_prefix = ""
    /\ cogs = <<>>
    /\ log = <<>>
    /\ ready = FALSE
    /\ closed = FALSE
    /\ hbPc = "none"
    /\ beats = 0
    /\ pending = NoCall
    /\ lastCall = NoCall

Started(step) == \E i \in 1..Len(log) : log[i] = step


(* ------------------------------ Env ------------------------------------ *)
\* set(self.REQUIRED_KEYS) - set(self.data)
MissingKeys(d) == REQUIRED_KEYS \ DOMAIN d

\* Env.__init__: read the file, then warn_about_missing_keys (sys.exit on a
\* missing key; sys.exit with a message ends the process with status 1)
EnvInit ==
    /\ pc = "start"
    /\ env' = dotenv
    /\ log' = Append(log, "env")
    /\ IF MissingKeys(dotenv) # {}
       THEN pc' = "exited" /\ failure' = "SystemExit"
       ELSE pc' = "env_loaded" /\ failure' = failure
    /\ UNCHANGED <<dotenv, storage, temp, remote, dataKind, data,
                   command_prefix, cogs>>
    /\ UNCHANGED gatewayVars

(* ----------------------------- Storage --------------------------------- *)
\* Storage.__init__: the session and the bucket are built from the Env
StorageInit ==
    /\ pc = "env_loaded"
    /\ storage' = [region_name           |-> env["S3_REGION"],
                   aws_access_key_id     |-> env["AWS_KEY"],
                   aws_secret_access_key |-> env["AWS_SECRET"],
                   bucket                |-> env["S3_BUCKET"]]
    /\ pc' = "storage_built"
    /\ log' = Append(log, "storage")
    /\ UNCHANGED <<dotenv, failure, env, temp, remote, dataKind, data,
                   command_prefix, cogs>>
    /\ UNCHANGED gatewayVars

\* Storage.get up to the download: the temporary file is created, then
\* bucket.download_file succeeds and the file holds the remote object
GetDownloadOk ==
    /\ pc = "storage_built"
    /\ temp' = "open"
    /\ \E obj \in RemoteObjects : remote' = obj
    /\ pc' = "downloaded"
    /\ log' = Append(log, "fetch")
    /\ UNCHANGED <<dotenv, failure, env, storage, dataKind, data,
                   command_prefix, cogs>>
    /\ UNCHANGED gatewayVars

\* Storage.get: bucket.download_file raises; the exception leaves get before
\* the try/finally is entered, so temporary_file.close() is not run
GetDownloadFail ==
    /\ pc = "storage_built"
    /\ temp' = "open"
    /\ pc' = "aborted"
    /\ failure' = "download"
    /\ log' = Append(log, "fetch")
    /\ UNCHANGED <<dotenv, env, storage, remote, dataKind, data,
                   command_prefix, cogs>>
    /\ UNCHANGED gatewayVars

\* Storage.get: open(temporary_file.name, 'rb') succeeds and the handle is yielded
GetOpenOk ==
    /\ pc = "downloaded"
    /\ pc' = "yielded"
    /\ UNCHANGED <<dotenv, failure, log>>
    /\ UNCHANGED startupVars
    /\ UNCHANGED gatewayVars

\* Storage.get: open raises, again outside the try/finally
GetOpenFail ==
    /\ pc = "downloaded"
    /\ pc' = "aborted"
    /\ failure' = "open"
    /\ UNCHANGED <<dotenv, log>>
    /\ UNCHANGED startupVars
    /\ UNCHANGED gatewayVars

\* a NamedTemporaryFile that was never closed is deleted only when the
\* interpreter finalizes the object, which may or may not come to pass
TempFinalize ==
    /\ pc = "aborted"
    /\ temp = "open"
    /\ temp' = "released"
    /\ UNCHANGED <<dotenv, pc, failure, log, env, storage, remote, dataKind,
                   data, command_prefix, cogs>>
    /\ UNCHANGED gatewayVars

(* ------------------------------ Config --------------------------------- *)
\* yaml.load(file.read(), Loader=yaml.FullLoader) on the downloaded object:
\* a malformed document raises, an empty document loads as None
YamlLoadLenient(obj) ==
    IF obj.kind = "mapping"
    THEN [ok |-> TRUE, kind |-> "dict", value |-> obj.doc]
    ELSE [ok |-> TRUE, kind |-> "dict", value |-> [commands |-> [prefix |-> "!"]]]

YamlLoad(obj) ==
    CASE obj.kind = "mapping"   -> [ok |-> TRUE,  kind |-> "dict",     value |-> obj.doc]
      [] obj.kind = "empty"     -> [ok |-> TRUE,  kind |-> "NoneType", value |-> EmptyMap]
      [] obj.kind = "malformed" -> [ok |-> FALSE, kind |-> "unset",    value |-> EmptyMap]

\* Config.load_config, the body of the with block and its exit: the parse,
\* then the finally of Storage.get (temporary_file.close()) on both outcomes
LoadConfigRead ==
    /\ pc = "yielded"
    /\ LET r == YamlLoad(remote) IN
         IF r.ok
         THEN /\ dataKind' = r.kind
              /\ data' = r.value
              /\ pc' = "config_loaded"
              /\ failure' = failure
         ELSE /\ pc' = "aborted"
              /\ failure' = "parse"
              /\ UNCHANGED <<dataKind, data>>
    /\ temp' = "released"
    /\ UNCHANGED <<dotenv, log, env, storage, remote, command_prefix, cogs>>
    /\ UNCHANGED gatewayVars

\* Config.load_env
load_env(e) ==
    [discord |-> [client_id |-> e["DISCORD_CLIENT_ID"],
                  token     |-> e["DISCORD_TOKEN"]],
     reddit  |-> [client_id |-> e["REDDIT_BOT_CLIENT_ID"],
                  secret    |-> e["REDDIT_BOT_SECRET"]]]

\* dict.update(other) with the order of precedence reversed
updateKeepingOld(d, o) ==
    [k \in DOMAIN d \cup DOMAIN o |-> IF k \in DOMAIN d THEN d[k] ELSE o[k]]

\* dict.update(other) that drops a key both hold instead of replacing it
updateDroppingStale(d, o) ==
    [k \in (DOMAIN d \ DOMAIN o) \cup { x \in DOMAIN o : x \notin DOMAIN d \/ d[x] = o[x] } |->
        IF k \in DOMAIN o THEN o[k] ELSE d[k]]

\* dict.update(other): every key of other replaces the key of the dict
update(d, o) ==
    [k \in DOMAIN d \cup DOMAIN o |-> IF k \in DOMAIN o THEN o[k] ELSE d[k]]

\* Config.__init__, second statement: self.data.update(self.load_env(env));
\* None has no update (AttributeError), a key the Env lacks is a KeyError
ConfigUpdate ==
    /\ pc = "config_loaded"
    /\ IF dataKind # "dict"
       THEN pc' = "aborted" /\ failure' = "AttributeError" /\ UNCHANGED <<data, log>>
       ELSE IF OVERRIDE_KEYS \ DOMAIN env # {}
       THEN pc' = "aborted" /\ failure' = "KeyError" /\ UNCHANGED <<data, log>>
       ELSE /\ data' = update(data, load_env(env))
            /\ pc' = "configured"
            /\ log' = Append(log, "merge")
            /\ failure' = failure
    /\ UNCHANGED <<dotenv, env, storage, temp, remote, dataKind,
                   command_prefix, cogs>>
    /\ UNCHANGED gatewayVars

(* ------------------------------- Bot ----------------------------------- *)
\* Bot.__init__: the prefix lookup (KeyError when the document has no
\* commands), the ten add_cog calls, then create_task(heartbeat_loop())
BotInit ==
    /\ pc = "configured"
    /\ IF "commands" \in DOMAIN data /\ "prefix" \in DOMAIN data["commands"]
       THEN /\ command_prefix' = data["commands"]["prefix"]
            /\ cogs' = COGS
            /\ hbPc' = "scheduled"
            /\ pc' = "constructed"
            /\ log' = Append(log, "bot")
            /\ failure' = failure
       ELSE /\ pc' = "aborted"
            /\ failure' = "KeyError"
            /\ UNCHANGED <<command_prefix, cogs, hbPc, log>>
    /\ UNCHANGED <<dotenv, env, storage, temp, remote, dataKind, data>>
    /\ UNCHANGED <<ready, closed, beats, pending, lastCall>>

\* Bot.run: super().run(self.config['discord']['token']) opens the gateway
\* connection and starts the event loop
Run ==
    /\ pc = "constructed"
    /\ "token" \in DOMAIN data["discord"]
    /\ pc' = "running"
    /\ log' = Append(log, "run")
    /\ UNCHANGED <<dotenv, failure>>
    /\ UNCHANGED startupVars
    /\ UNCHANGED gatewayVars

(* --------------------------- gateway events ---------------------------- *)
\* while run() blocks, the gateway reports ready: the ready event is set and
\* a task suspended in wait_until_ready is made runnable
GatewayReady ==
    /\ pc = "running"
    /\ ~closed
    /\ ~ready
    /\ ready' = TRUE
    /\ hbPc' = IF hbPc = "wait_ready" THEN "woken" ELSE hbPc
    /\ UNCHANGED <<dotenv, pc, failure, log, closed, beats, pending, lastCall>>
    /\ UNCHANGED startupVars

\* while run() blocks, the connection closes: is_closed() turns true and the
\* ready event is cleared
GatewayClose ==
    /\ pc = "running"
    /\ ~closed
    /\ closed' = TRUE
    /\ ready' = FALSE
    /\ UNCHANGED <<dotenv, pc, failure, log, hbPc, beats, pending, lastCall>>
    /\ UNCHANGED startupVars

(* ---------------------------- heartbeat loop --------------------------- *)
\* self.is_closed() read through a flag that is never refreshed
is_closed_stale == FALSE

\* self.is_closed()
is_closed == closed

\* one pass of `while not self.is_closed()`: leave the loop, or dispatch
\* 'heartbeat' and suspend in asyncio.sleep(10)
LoopPass ==
    IF is_closed
    THEN hbPc' = "done" /\ beats' = beats
    ELSE beats < MaxBeats /\ beats' = beats + 1 /\ hbPc' = "sleeping"

\* the first run of the task without the wait for the ready event
HeartbeatStartNoWait ==
    /\ hbPc = "scheduled"
    /\ pc = "running"
    /\ LoopPass
    /\ UNCHANGED <<dotenv, pc, failure, log, ready, closed, pending, lastCall>>
    /\ UNCHANGED startupVars

\* the task's first run: await self.wait_until_ready() returns at once when
\* the event is set, and suspends the task otherwise
HeartbeatStart ==
    /\ hbPc = "scheduled"
    /\ pc = "running"
    /\ IF ready THEN LoopPass ELSE hbPc' = "wait_ready" /\ beats' = beats
    /\ UNCHANGED <<dotenv, pc, failure, log, ready, closed, pending, lastCall>>
    /\ UNCHANGED startupVars

\* the task resumes from wait_until_ready after the event was set
HeartbeatResume ==
    /\ hbPc = "woken"
    /\ LoopPass
    /\ UNCHANGED <<dotenv, pc, failure, log, ready, closed, pending, lastCall>>
    /\ UNCHANGED startupVars

\* the task resumes from asyncio.sleep(10)
HeartbeatTick ==
    /\ hbPc = "sleeping"
    /\ LoopPass
    /\ UNCHANGED <<dotenv, pc, failure, log, ready, closed, pending, lastCall>>
    /\ UNCHANGED startupVars

(* ---------------------------- channel guards --------------------------- *)
\* f"take it to #{name}"
Redirect(name) == <<"take it to #", name>>

\* the comparison of check_meta_channel against the wrong configured channel
check_meta_channel_swapped(ch) == ch = data["channels"]["bot"]

\* Bot.check_meta_channel
check_meta_channel(ch) == ch = data["channels"]["meta"]

\* Bot.check_bot_channel
check_bot_channel(ch) == ch = data["channels"]["bot"]

\* the lookup self.config['channels'][name] of a guard succeeds
HasChannel(name) == "channels" \in DOMAIN data /\ name \in DOMAIN data["channels"]

\* Bot.warn_meta_channel run to its end with ctx.send delivering: the call in
\* channel ch, the messages it sends, whether it raised, what it returns
warn_meta_channel(ch) ==
    IF ~HasChannel("meta")
    THEN [fn |-> "meta", channel |-> ch, messages |-> <<>>,
          raised |-> TRUE, ret |-> FALSE]
    ELSE IF ~check_meta_channel(ch)
    THEN [fn |-> "meta", channel |-> ch,
          messages |-> <<Redirect(data["channels"]["meta"])>>,
          raised |-> FALSE, ret |-> FALSE]
    ELSE [fn |-> "meta", channel |-> ch, messages |-> <<>>,
          raised |-> FALSE, ret |-> TRUE]

\* Bot.warn_bot_channel run to its end with ctx.send delivering
warn_bot_channel(ch) ==
    IF ~HasChannel("bot")
    THEN [fn |-> "bot", channel |-> ch, messages |-> <<>>,
          raised |-> TRUE, ret |-> FALSE]
    ELSE IF ~check_bot_channel(ch)
    THEN [fn |-> "bot", channel |-> ch,
          messages |-> <<Redirect(data["channels"]["bot"])>>,
          raised |-> FALSE, ret |-> FALSE]
    ELSE [fn |-> "bot", channel |-> ch, messages |-> <<>>,
          raised |-> FALSE, ret |-> TRUE]

\* a guard coroutine runs up to its first suspension: a call with a message
\* to send suspends in `await ctx.send(...)`, every other call is over at
\* once (return True, or the KeyError of the config lookup)
GuardCall(r) ==
    IF r.messages # <<>>
    THEN pending' = r /\ lastCall' = NoCall
    ELSE lastCall' = r /\ pending' = pending

\* the event loop resumes the guard suspended in ctx.send: the message was
\* delivered and the guard returns False, or ctx.send raises and the
\* exception leaves the guard with nothing sent
GuardResume(fn) ==
    /\ pending.fn = fn
    /\ \E delivered \in BOOLEAN :
          lastCall' = IF delivered THEN pending
                      ELSE [pending EXCEPT !.messages = <<>>, !.raised = TRUE]
    /\ pending' = NoCall

\* a command handler calls warn_meta_channel on its context; the guards
\* read the config only, whatever the state of the gateway. One guard call
\* is followed at a time.
WarnMetaChannel ==
    /\ pc = "running"
    /\ pending = NoCall
    /\ \E ch \in ChannelNames : GuardCall(warn_meta_channel(ch))
    /\ UNCHANGED <<dotenv, pc, failure, log, ready, closed, hbPc, beats>>
    /\ UNCHANGED startupVars

\* warn_meta_channel resumes from `await ctx.send(...)`
WarnMetaChannelResume ==
    /\ GuardResume("meta")
    /\ UNCHANGED <<dotenv, pc, failure, log, ready, closed, hbPc, beats>>
    /\ UNCHANGED startupVars

\* a command handler calls warn_bot_channel on its context
WarnBotChannel ==
    /\ pc = "running"
    /\ pending = NoCall
    /\ \E ch \in ChannelNames : GuardCall(warn_bot_channel(ch))
    /\ UNCHANGED <<dotenv, pc, failure, log, ready, closed, hbPc, beats>>
    /\ UNCHANGED startupVars

\* warn_bot_channel resumes from `await ctx.send(...)`
WarnBotChannelResume ==
    /\ GuardResume("bot")
    /\ UNCHANGED <<dotenv, pc, failure, log, ready, closed, hbPc, beats>>
    /\ UNCHANGED startupVars

(* --------------------------- specifications ---------------------------- *)
Next ==
    \/ EnvInit
    \/ StorageInit
    \/ GetDownloadOk
    \/ GetDownloadFail
    \/ GetOpenOk
    \/ GetOpenFail
    \/ TempFinalize
    \/ LoadConfigRead
    \/ ConfigUpdate
    \/ BotInit
    \/ Run
    \/ GatewayReady
    \/ GatewayClose
    \/ HeartbeatStart
    \/ HeartbeatResume
    \/ HeartbeatTick
    \/ WarnMetaChannel
    \/ WarnMetaChannelResume
    \/ WarnBotChannel
    \/ WarnBotChannelResume

Spec == Init /\ [][Next]_vars

\* the event loop runs every runnable task: the heartbeat task is scheduled
\* fairly whenever it can take a step
FairSpec ==
    /\ Init
    /\ [][Next]_vars
    /\ WF_vars(HeartbeatStart)
    /\ WF_vars(HeartbeatResume)
    /\ WF_vars(HeartbeatTick)

TypeOK ==
    /\ dotenv \in EnvFiles
    /\ pc \in {"start", "exited", "env_loaded", "storage_built", "downloaded",
               "yielded", "config_loaded", "configured", "constructed",
               "running", "aborted"}
    /\ failure \in {"none", "SystemExit", "download", "open", "parse",
                    "KeyError", "AttributeError"}
    /\ temp \in {"none", "open", "released"}
    /\ dataKind \in {"unset", "dict", "NoneType"}
    /\ hbPc \in {"none", "scheduled", "wait_ready", "woken", "sleeping", "done"}
    /\ beats \in 0..MaxBeats
    /\ ready \in BOOLEAN
    /\ closed \in BOOLEAN

(* ------------------------------ properties ---------------------------- *)
\* the eight keys the interface section of the specification lists as required
DOCUMENTED_REQUIRED_KEYS ==
    {"S3_REGION", "S3_BUCKET", "AWS_KEY", "AWS_SECRET", "DISCORD_CLIENT_ID",
     "DISCORD_TOKEN", "REDDIT_BOT_CLIENT_ID", "REDDIT_BOT_SECRET"}

\* the secret file lacks one of the documented required keys
SecretMissing == DOCUMENTED_REQUIRED_KEYS \ DOMAIN dotenv # {}

\* Env() has returned an Env to Bot.create
EnvReturned == pc \notin {"start", "exited"}

\* the order of the startup steps of Bot.create and Bot.run
STARTUP_ORDER == <<"env", "storage", "fetch", "merge", "bot", "run">>

IsPrefix(s, t) == Len(s) <= Len(t) /\ \A i \in 1..Len(s) : s[i] = t[i]

\* C1: a secret file that lacks any of the eight required keys makes Env
\* construction end the process (SystemExit, non-zero status); an Env is
\* never returned to the caller.
C1_MissingKeyTerminates ==
    SecretMissing =>
        /\ ~EnvReturned
        /\ (pc = "exited" => failure = "SystemExit")

\* C2: when any of the eight required secrets is missing, the run never
\* starts the download of config/app.yml and never opens the gateway.
C2_NoNetworkWhenSecretMissing ==
    SecretMissing => ~Started("fetch") /\ ~Started("run")

\* C3: after the merge, 'discord' and 'reddit' are exactly the subtrees built
\* from the secrets, and every other top-level key of the remote document is
\* present with its value unchanged.
C3_MergeOverrides ==
    Started("merge") =>
        /\ data["discord"] = [client_id |-> env["DISCORD_CLIENT_ID"],
                              token     |-> env["DISCORD_TOKEN"]]
        /\ data["reddit"] = [client_id |-> env["REDDIT_BOT_CLIENT_ID"],
                             secret    |-> env["REDDIT_BOT_SECRET"]]
        /\ \A k \in DOMAIN remote.doc \ {"discord", "reddit"} :
              k \in DOMAIN data /\ data[k] = remote.doc[k]

\* a merge replaced a remote 'discord' subtree and kept the 'commands' key
C3_Witness ==
    /\ Started("merge")
    /\ "discord" \in DOMAIN remote.doc
    /\ "unused" \in DOMAIN remote.doc["discord"]
    /\ "unused" \notin DOMAIN data["discord"]
    /\ "commands" \in DOMAIN remote.doc

\* C4: once Storage.get has been left (normally or by an exception), the
\* temporary file it created has been closed, on every exit path.
C4_TempReleasedOnEveryExit ==
    (Started("fetch") /\ pc \notin {"downloaded", "yielded"}) => temp = "released"

\* C5: a 'heartbeat' event is dispatched only while the gateway has reported
\* ready and has not been reported closed.
C5_HeartbeatOnlyWhileReadyAndOpen ==
    [][beats' # beats => (ready /\ ~closed /\ ready' /\ ~closed')]_vars

\* heartbeats were dispatched, the gateway closed and the loop was left
C5_Witness == beats > 0 /\ closed /\ hbPc = "done"

\* C6: a guard call that finds the channel name different from the
\* configured one sends exactly one redirect message and returns false; one
\* that finds it equal sends nothing and returns true; the process keeps
\* running (calls that raise, by the config lookup or by ctx.send, aside).
C6_WarnGuards ==
    /\ (lastCall.fn # "none" /\ ~lastCall.raised) =>
        LET target == data["channels"][lastCall.fn] IN
          /\ lastCall.channel # target =>
                lastCall.messages = <<Redirect(target)>> /\ lastCall.ret = FALSE
          /\ lastCall.channel = target =>
                lastCall.messages = <<>> /\ lastCall.ret = TRUE
          /\ pc = "running"
          /\ failure = "none"
    /\ pending.fn # "none" =>
          /\ pending.channel # data["channels"][pending.fn]
          /\ pending.messages = <<Redirect(data["channels"][pending.fn])>>
          /\ pc = "running"
          /\ failure = "none"

\* warn_meta_channel was called from another channel, the gateway closed
\* while it was suspended in ctx.send, and it returned false after its one
\* redirect
C6_Witness ==
    /\ lastCall.fn = "meta"
    /\ lastCall.channel = "bots"
    /\ Len(lastCall.messages) = 1
    /\ lastCall.ret = FALSE
    /\ ~lastCall.raised
    /\ closed
    /\ pending = NoCall

\* C7 as stated: once the gateway connection is closed the heartbeat task
\* eventually terminates, wherever it was when the close happened.
C7_ClosedLeadsToDone == closed ~> (hbPc = "done")

\* C7 amended: once the gateway connection is closed while the heartbeat task
\* is past its wait for ready (runnable after the wait, or sleeping), the task
\* eventually terminates.
C7_ClosedPastWaitLeadsToDone ==
    (closed /\ hbPc \in {"woken", "sleeping"}) ~> (hbPc = "done")

\* the gateway closed between the ready event and the task's resumption, and
\* the task left the loop without a dispatch
C7_Witness == closed /\ hbPc = "done" /\ beats = 0

\* C8: merging the same secrets into the merged config again changes nothing.
C8_MergeIdempotent ==
    Started("merge") =>
        LET again == update(data, load_env(env)) IN
          /\ again = data
          /\ again["discord"] = data["discord"]
          /\ again["reddit"] = data["reddit"]

\* a merge replaced a stale remote 'reddit' subtree
C8_Witness ==
    /\ Started("merge")
    /\ "reddit" \in DOMAIN remote.doc
    /\ remote.doc["reddit"] # data["reddit"]

\* C9: the startup steps happen in the order env, storage, fetch, merge, bot,
\* run, each at most once; after a failed download or with a malformed
\* document no cog is registered, no heartbeat task is scheduled and the
\* gateway is never opened, and once the parse has failed startup is aborted.
C9_StartupOrdered ==
    /\ IsPrefix(log, STARTUP_ORDER)
    /\ (cogs # <<>> \/ hbPc # "none") => Started("bot")
    /\ (failure = "download" \/ remote.kind = "malformed") =>
          /\ cogs = <<>>
          /\ hbPc = "none"
          /\ ~Started("merge") /\ ~Started("bot") /\ ~Started("run")
          /\ pc \in {"downloaded", "yielded", "aborted"}
    /\ failure \in {"download", "parse"} => pc = "aborted"

\* startup was aborted by the parse failure, after the fetch
C9_Witness ==
    /\ pc = "aborted"
    /\ failure = "parse"
    /\ log = <<"env", "storage", "fetch">>

\* C10: every Env that construction returns holds all required keys with
\* non-empty values (stated for the keys Env itself checks).
C10_ReturnedSecretsNonEmpty ==
    EnvReturned =>
        \A k \in REQUIRED_KEYS : k \in DOMAIN env /\ env[k] \notin {"", PyNone}

=============================================================================
